---- MODULE Spec2Model ----
(***************************************************************************)
(* Model of backend/services/drive_service.py (class DriveService):        *)
(*   - the folder cache: ensure_cache, get_random_photo and the background *)
(*     thread _background_refresh_task, sharing _cache, _is_refreshing and *)
(*     _lock;                                                              *)
(*   - the content fetcher get_file_content / _download_raw.               *)
(* Spec is the cache with its threads; SpecContent is get_file_content.    *)
(***************************************************************************)
EXTENDS Integers, Sequences, FiniteSets, TLC

(* ----------------------------- bounds ---------------------------------- *)
\* pages a remote folder listing may have
MaxPages == 2
\* files a full page holds
MaxPageFiles == 1
\* characters a thumbnailLink may have
MaxLinkLen == 4

Folders == {"fA", "fB"}
Callers == {1, 2}

\* page_token = None
NoToken == 0

VARIABLES
    remote,         \* remote[f]: the pages of folder f's listing answered so far
    cache,          \* self._cache: dict folder -> list of records
    is_refreshing,  \* self._is_refreshing: dict folder -> bool
    lock,           \* self._lock: its holder
    tasks,          \* tasks[f]: the running _background_refresh_task(f) threads
    pc,             \* pc[c]: where request thread c stands
    folder,         \* folder[c]: its folder_id argument
    files,          \* files[c]: local `files` of get_random_photo
    ret,            \* ret[c]: what the call returned or raised
    syncFetches,    \* syncFetches[f]: synchronous first-page fetches ever made for f
    fc,             \* the get_file_content execution (SpecContent)
    app             \* main.py: configuration, drive_service, the request served (SpecApp)

vars == <<remote, cache, is_refreshing, lock, tasks, pc, folder, files, ret, syncFetches,
          fc, app>>

(* ----------------------------- helpers --------------------------------- *)
RECURSIVE SeqsUpTo(_, _)
SeqsUpTo(S, n) ==
    IF n = 0 THEN {<<>>}
    ELSE LET shorter == SeqsUpTo(S, n - 1)
         IN  shorter \cup {Append(q, x) : q \in {r \in shorter : Len(r) = n - 1}, x \in S}

Elems(s) == {s[i] : i \in 1..Len(s)}

\* dict assignment d[k] = v
DictSet(d, k, v) == [x \in (DOMAIN d) \cup {k} |-> IF x = k THEN v ELSE d[x]]

\* remove s[i]
Remove(s, i) == [j \in 1..(Len(s) - 1) |-> IF j < i THEN s[j] ELSE s[j + 1]]

\* holders of self._lock: nobody, the request thread c, a background thread
NoOwner == [caller |-> 0, task |-> FALSE]
CallerOwner(c) == [caller |-> c, task |-> FALSE]
TaskOwner == [caller |-> 0, task |-> TRUE]

\* A file record of page p of folder f; gen tells which code fetched it
\* (0: the synchronous fetch of ensure_cache, 1: a background thread).
FileRecord(f, p, k, gen) == [id |-> <<f, p, k>>, gen |-> gen]
Page(f, p, n, gen) == [k \in 1..n |-> FileRecord(f, p, k, gen)]

\* The remote listing of a folder does not change during a run, and the model
\* learns it page by page: remote[f][p] is what files().list answered for
\* page p (n files, more: a nextPageToken came with them). A page not asked
\* for before is empty or full (MaxPageFiles files), and a listing has at
\* most MaxPages pages. The first page and the last page may be empty (the
\* code tests the first batch and the last token); a page in the middle of
\* a listing is full, the code only extends a list with it.
PageNo(page_token) == IF page_token = NoToken THEN 1 ELSE page_token
Answers(f, p) ==
    IF p <= Len(remote[f]) THEN {remote[f][p]}
    ELSE {a \in [n : {0, MaxPageFiles}, more : BOOLEAN] :
             /\ a.more => p < MaxPages
             /\ (a.more /\ p > 1) => a.n = MaxPageFiles}
Learn(f, p, a) ==
    IF p <= Len(remote[f]) THEN remote ELSE [remote EXCEPT ![f] = Append(@, a)]

FetchOutcomes == {"ok", "http_error", "other_error"}
\* what files().list answers when the call ends as `outcome`: a page when it
\* succeeds, nothing to read when it raises
AnswersTo(f, p, outcome) ==
    IF outcome = "ok" THEN Answers(f, p) ELSE {[n |-> 0, more |-> FALSE]}

\* _fetch_page: one page and its continuation token; an HttpError is turned
\* into ([], None). Any other exception is not caught here (see Raises).
fetch_page(f, page_token, outcome, a, gen) ==
    LET p == PageNo(page_token)
    IN  IF outcome = "ok"
        THEN [files |-> Page(f, p, a.n, gen),
              next  |-> IF a.more THEN p + 1 ELSE NoToken]
        ELSE [files |-> <<>>, next |-> NoToken]
Raises(outcome) == outcome = "other_error"

\* mutant of HasData: the cached data is never taken as good enough
HasData_never(f) == FALSE
\* line 110: folder_id in self._cache and self._cache[folder_id]
HasData(f) == f \in DOMAIN cache /\ cache[f] # <<>>

\* mutant of AlreadyRefreshing: the flag is not looked at
AlreadyRefreshing_unchecked(f) == FALSE
\* line 117: self._is_refreshing.get(folder_id, False)
AlreadyRefreshing(f) == f \in DOMAIN is_refreshing /\ is_refreshing[f]

\* mutant of NeedsFirstPage: an empty cached list counts as no entry
NeedsFirstPage_or_empty(f) == f \notin DOMAIN cache \/ cache[f] = <<>>
\* line 125: folder_id not in self._cache
NeedsFirstPage(f) == f \notin DOMAIN cache

\* mutant of FirstPageIsAll: the thread is started whatever the token
FirstPageIsAll_never(next_token) == FALSE
\* mutant of FirstPageIsAll: the first page is taken for the whole listing
FirstPageIsAll_always(next_token) == TRUE
\* line 129: next_token is None
FirstPageIsAll(next_token) == next_token = NoToken

\* lines 134-138: threading.Thread(target=self._background_refresh_task).start()
\* (ok: no page fetch of the thread has failed so far)
StartThread(f) ==
    [tasks EXCEPT ![f] = Append(@, [pc |-> "fetch", all_files |-> <<>>,
                                    page_token |-> NoToken, ok |-> TRUE])]
\* the thread's function returns (or dies of an exception)
EndThread(f, t) == [tasks EXCEPT ![f] = Remove(@, t)]

NoFiles == [some |-> FALSE, list |-> <<>>]
NoRet == [kind |-> "none", photo |-> <<>>]

(* ------------------- get_file_content: strings ------------------------- *)
\* Strings are sequences of characters, so that `in`, split and lower work
\* on them as in Python.
IsAt(s, sub, i) == /\ i + Len(sub) - 1 <= Len(s)
                   /\ \A j \in 1..Len(sub) : s[i + j - 1] = sub[j]
\* sub in s
Contains(s, sub) == \E i \in 1..(Len(s) + 1) : IsAt(s, sub, i)
\* s.split(sub)[0]: what precedes the first occurrence of sub
SplitFirst(s, sub) ==
    IF Contains(s, sub)
    THEN LET i == CHOOSE k \in 1..(Len(s) + 1) :
                    /\ IsAt(s, sub, k)
                    /\ \A m \in 1..(k - 1) : ~IsAt(s, sub, m)
         IN  SubSeq(s, 1, i - 1)
    ELSE s
UpperCase == <<"A","B","C","D","E","F","G","H","I","J","K","L","M","N","O","P","Q","R","S","T","U","V","W","X","Y","Z">>
LowerCase == <<"a","b","c","d","e","f","g","h","i","j","k","l","m","n","o","p","q","r","s","t","u","v","w","x","y","z">>
LowerChar(ch) ==
    IF \E i \in 1..Len(UpperCase) : UpperCase[i] = ch
    THEN LowerCase[CHOOSE i \in 1..Len(UpperCase) : UpperCase[i] = ch]
    ELSE ch
\* s.lower()
Lower(s) == [i \in 1..Len(s) |-> LowerChar(s[i])]

ImageJpeg == <<"i","m","a","g","e","/","j","p","e","g">>
\* the mimeType values of the files the model fetches ("" when Drive gives none)
MimeTypes == { ImageJpeg,
               <<"i","m","a","g","e","/","p","n","g">>,
               <<"i","m","a","g","e","/","h","e","i","c">>,
               <<"i","m","a","g","e","/","H","E","I","F">>,
               <<"i","m","a","g","e","/","h","e","i","f","-","s","e","q","u","e","n","c","e">>,
               <<>> }

\* the thumbnailLink values: every string of at most MaxLinkLen of these
\* characters ("u" stands for the characters of a URL that are not ? = s)
LinkChars == {"u", "?", "=", "s", "2"}
Links == SeqsUpTo(LinkChars, MaxLinkLen)
NoLink == [some |-> FALSE, val |-> <<>>]
ThumbnailLinks == {NoLink} \cup {[some |-> TRUE, val |-> l] : l \in Links}

\* lines 206-214: the URL asked for on the thumbnail path (lines 188-196
\* compute a base_link that lines 207 and 210 overwrite)
download_url(thumbnail_link) ==
    IF Contains(thumbnail_link, <<"?","s","=">>)
    THEN SplitFirst(thumbnail_link, <<"?","s","=">>) \o <<"?","s","=","1","6","0","0">>
    ELSE IF Contains(thumbnail_link, <<"=","s">>)
    THEN SplitFirst(thumbnail_link, <<"=","s">>) \o <<"=","s","1","6","0","0">>
    ELSE thumbnail_link \o <<"=","s","1","6","0","0">>

\* line 184: use_thumbnail and thumbnail_link (None and "" are falsy)
UsesThumbnail(link) == link.some /\ link.val # <<>>

\* mutant of IsHeic: only "heic" is looked for
IsHeic_heic_only(mime_type) == Contains(Lower(mime_type), <<"h","e","i","c">>)
\* line 249: "heif" in mime_type.lower() or "heic" in mime_type.lower()
IsHeic(mime_type) ==
    \/ Contains(Lower(mime_type), <<"h","e","i","f">>)
    \/ Contains(Lower(mime_type), <<"h","e","i","c">>)

\* what may happen to the thumbnail request, lines 218-235:
\*   http_status   raise_for_status raises
\*   timeout       requests.get times out after 5 s
\*   transport     requests.get raises another transport error
\*   content_type  Content-Type does not start with image/ (ValueError)
\*   image_bytes   Image.open / verify fails (ValueError)
\*   ok            both validations pass
ThumbOutcomes == {"ok", "http_status", "timeout", "transport", "content_type",
                  "image_bytes"}
\* mutant of thumbnail_valid: the bytes are not verified
thumbnail_valid_unverified(outcome) == outcome \in {"ok", "image_bytes"}
\* mutant of thumbnail_valid: the Content-Type header is not looked at
thumbnail_valid_any_type(outcome) == outcome \in {"ok", "content_type"}
\* lines 219-235: the response passes raise_for_status and both validations
thumbnail_valid(outcome) == outcome = "ok"
\* mutant of thumbnail_caught: except requests.RequestException
thumbnail_caught_requests_only(outcome) ==
    outcome \in {"http_status", "timeout", "transport"}
\* line 238: except Exception catches whatever the try block raised
thumbnail_caught(outcome) == TRUE
\* mutant of thumbnail_mime: the file's own MIME type is returned
thumbnail_mime_original(mime_type) == mime_type
\* line 237: the MIME type returned with the thumbnail bytes
thumbnail_mime(mime_type) == ImageJpeg

\* what may happen in _download_raw, lines 266-276
DownloadOutcomes == {"ok", "refresh_error", "transport", "http_status"}

NoContent == [bytes |-> "none", mime |-> <<>>]
FcIdle == [pc |-> "idle", mime_type |-> <<>>, thumbnail_link |-> NoLink,
           creds_valid |-> TRUE, url |-> <<>>, thumb |-> "none", ndownload |-> 0,
           nrefresh |-> 0, convert |-> "none", raised |-> "none",
           ret |-> NoContent]

(* ------------------------------ main.py -------------------------------- *)
\* os.getenv gives None or a string
NoEnv == [some |-> FALSE, val |-> ""]
Env(w) == [some |-> TRUE, val |-> w]
\* the values APP_PASSWORD, SECRET_KEY, a submitted password and a cookie take
Words == {"", "a", "b"}
\* request.cookies.get("auth_token"): None or the cookie's value
Tokens == {NoEnv} \cup {Env(w) : w \in Words}
\* Python truth of an optional string: None and "" are falsy
Truthy(x) == x.some /\ x.val # ""

\* GOOGLE_SERVICE_ACCOUNT_JSON: not set, set to "", set to a text json.loads
\* rejects, set to a text json.loads accepts
JsonCreds == {"unset", "empty", "malformed", "json"}
\* line 39: if json_creds
JsonCredsPresent(json_creds) == json_creds \in {"malformed", "json"}
\* what Credentials.from_service_account_info / _file does with what it is
\* given: builds the credentials, or rejects the content with a ValueError,
\* or fails otherwise (content that is not an object, unreadable file)
LibOutcomes == {"ok", "ValueError", "other_error"}
NoCreds == [creds |-> "none", error |-> "none", message |-> "none",
            looked_for_file |-> FALSE]

\* mutant of get_credentials: the credential file is looked for first
get_credentials_file_first(json_creds, file_exists, lib) ==
    IF file_exists
    THEN IF lib = "ok"
         THEN [NoCreds EXCEPT !.creds = "file", !.looked_for_file = TRUE]
         ELSE [NoCreds EXCEPT !.error = lib, !.message = "library",
                              !.looked_for_file = TRUE]
    ELSE IF JsonCredsPresent(json_creds)
    THEN IF json_creds = "malformed"
         THEN [NoCreds EXCEPT !.error = "ValueError", !.message = "invalid_json",
                              !.looked_for_file = TRUE]
         ELSE IF lib = "ok"
              THEN [NoCreds EXCEPT !.creds = "env", !.looked_for_file = TRUE]
              ELSE [NoCreds EXCEPT !.error = lib, !.message = "library",
                                   !.looked_for_file = TRUE]
    ELSE [NoCreds EXCEPT !.error = "ValueError", !.message = "no_credentials",
                         !.looked_for_file = TRUE]
\* _get_credentials, lines 36-58: the credentials and where they come from,
\* or the exception raised; looked_for_file: os.path.exists was called
get_credentials(json_creds, file_exists, lib) ==
    IF JsonCredsPresent(json_creds)
    THEN IF json_creds = "malformed"
         THEN [NoCreds EXCEPT !.error = "ValueError", !.message = "invalid_json"]
         ELSE IF lib = "ok"
              THEN [NoCreds EXCEPT !.creds = "env"]
              ELSE [NoCreds EXCEPT !.error = lib, !.message = "library"]
    ELSE IF file_exists
    THEN IF lib = "ok"
         THEN [NoCreds EXCEPT !.creds = "file", !.looked_for_file = TRUE]
         ELSE [NoCreds EXCEPT !.error = lib, !.message = "library",
                              !.looked_for_file = TRUE]
    ELSE [NoCreds EXCEPT !.error = "ValueError", !.message = "no_credentials",
                         !.looked_for_file = TRUE]

\* lines 49-80: CAPTIONS, a caption being (emotion, its place in the list)
EmotionIds == {"happy", "romantic", "sad", "angry"}
CaptionCount == [e \in EmotionIds |-> IF e \in {"happy", "romantic"} THEN 5 ELSE 6]
CAPTIONS == [e \in EmotionIds |-> {<<e, i>> : i \in 1..CaptionCount[e]}]
\* the emotion_id of a request: a key of CAPTIONS or not
EmotionArgs == EmotionIds \cup {"invalid"}

\* the records of the folder listing as the endpoints see them: the id and
\* the remote links of a file
DriveFiles == {[id |-> "1", webContentLink |-> "content1", webViewLink |-> "view1",
                thumbnailLink |-> "thumb1"],
               [id |-> "2", webContentLink |-> "content2", webViewLink |-> "view2",
                thumbnailLink |-> "thumb2"]}
RemoteLinks == UNION {{d.webContentLink, d.webViewLink, d.thumbnailLink} : d \in DriveFiles}
\* how a call of get_random_photo ends (the kinds of ret in Spec)
RandomPhotoResults ==
    {[kind |-> "photo", photo |-> d] : d \in DriveFiles}
        \cup {[kind |-> "null", photo |-> <<>>], [kind |-> "raised", photo |-> <<>>]}
\* how a call of get_file_content ends (fc.ret and fc.raised in SpecContent)
ContentResults ==
    {[kind |-> "returned", bytes |-> b, mime |-> m, raised |-> "none"] :
        b \in {"thumbnail", "raw", "jpeg_of_raw"}, m \in MimeTypes}
        \cup {[kind |-> "raised", bytes |-> "none", mime |-> <<>>, raised |-> r] :
                r \in {"metadata", "refresh", "download"}}

\* mutant of check_auth: any non-empty cookie is accepted
check_auth_any_token(token, SECRET_KEY) == Truthy(token)
\* lines 89-95: not (not token or token != SECRET_KEY)
check_auth(token, SECRET_KEY) == Truthy(token) /\ token.val = SECRET_KEY

\* mutant of FolderConfigured: the folder id is not looked at
FolderConfigured_unchecked(DRIVE_FOLDER_ID) == TRUE
\* line 149: DRIVE_FOLDER_ID is not None and not ""
FolderConfigured(DRIVE_FOLDER_ID) == Truthy(DRIVE_FOLDER_ID)

\* mutant of final_url: the remote link of the record is handed out
final_url_remote(result) ==
    IF result.kind = "photo" THEN <<result.photo.webContentLink>> ELSE <<>>
\* lines 157-167: photo = None when get_random_photo raised;
\* f"/api/image/{photo['id']}" if photo else ""
final_url(result) ==
    IF result.kind = "photo" THEN <<"/api/image/", result.photo.id>> ELSE <<>>

\* mutant of proxy_caught: except HttpError
proxy_caught_http_only(raised) == raised = "metadata"
\* line 179: except Exception catches whatever get_file_content raised
proxy_caught(raised) == TRUE

NoRequest == [endpoint |-> "none", token |-> NoEnv, arg |-> ""]
NoBody == [photo_url |-> <<>>, caption |-> <<>>, emotion_id |-> "",
           bytes |-> "none", media_type |-> <<>>]
NoResult == [kind |-> "none"]
NoResponse == [status |-> 0, called |-> "none", result |-> NoResult,
               set_cookie |-> NoEnv, body |-> NoBody]
AppStart == [pc |-> "boot", APP_PASSWORD |-> "", SECRET_KEY |-> "",
             DRIVE_FOLDER_ID |-> NoEnv, json_creds |-> "unset",
             file_exists |-> FALSE, got |-> NoCreds, built |-> FALSE,
             network |-> FALSE, drive_service |-> FALSE, jar |-> NoEnv,
             req |-> NoRequest, resp |-> NoResponse]

(* ------------------------------- Init ---------------------------------- *)
Init ==
    /\ remote = [f \in Folders |-> <<>>]
    /\ cache = <<>>
    /\ is_refreshing = <<>>
    /\ lock = NoOwner
    /\ tasks = [f \in Folders |-> <<>>]
    /\ pc = [c \in Callers |-> "idle"]
    /\ folder = [c \in Callers |-> "fA"]
    /\ files = [c \in Callers |-> NoFiles]
    /\ ret = [c \in Callers |-> NoRet]
    /\ syncFetches = [f \in Folders |-> 0]
    /\ fc = FcIdle
    /\ app = AppStart

(* ------------------------- callers: ensure_cache ----------------------- *)
\* Request thread c enters ensure_cache(f): called on its own, or from line
\* 141 of get_random_photo(f).
Call(c) ==
    /\ pc[c] = "idle"
    /\ \E f \in Folders : folder' = [folder EXCEPT ![c] = f]
    /\ pc' = [pc EXCEPT ![c] = "ec_wait"]
    /\ UNCHANGED <<remote, cache, is_refreshing, lock, tasks, files, ret,
                   syncFetches, fc, app>>

\* The call is over: ensure_cache called on its own has returned ("ec_ret"),
\* or get_random_photo has returned or raised ("done"). The locals go.
Return(c) ==
    /\ pc[c] \in {"ec_ret", "done"}
    /\ pc' = [pc EXCEPT ![c] = "idle"]
    /\ folder' = [folder EXCEPT ![c] = "fA"]
    /\ ret' = [ret EXCEPT ![c] = NoRet]
    /\ UNCHANGED <<remote, cache, is_refreshing, lock, tasks, files,
                   syncFetches, fc, app>>

\* ensure_cache, lines 109-125 and 133-138: takes the lock, checks the cache
\* and the flag, sets the flag; with a cache entry present it starts the
\* thread and returns, without one it goes on to the synchronous fetch while
\* holding the lock.
ensure_cache(c) ==
    LET f == folder[c] IN
    /\ pc[c] = "ec_wait"
    /\ lock = NoOwner
    /\ IF HasData(f) \/ AlreadyRefreshing(f)
       THEN /\ pc' = [pc EXCEPT ![c] = "ec_ret"]
            /\ UNCHANGED <<is_refreshing, lock, tasks>>
       ELSE /\ is_refreshing' = DictSet(is_refreshing, f, TRUE)
            /\ IF NeedsFirstPage(f)
               THEN /\ lock' = CallerOwner(c)
                    /\ pc' = [pc EXCEPT ![c] = "ec_fetch"]
                    /\ UNCHANGED tasks
               ELSE /\ tasks' = StartThread(f)
                    /\ pc' = [pc EXCEPT ![c] = "ec_ret"]
                    /\ UNCHANGED lock
    /\ UNCHANGED <<remote, cache, folder, files, ret, syncFetches, fc, app>>

\* ensure_cache, lines 126-138: the synchronous first-page fetch, made while
\* holding the lock. An exception other than HttpError leaves _fetch_page,
\* ensure_cache and get_random_photo: the with-block releases the lock, the
\* flag stays set.
ensure_cache_first_page(c) ==
    LET f == folder[c] IN
    /\ pc[c] = "ec_fetch"
    /\ \E outcome \in FetchOutcomes : \E a \in AnswersTo(f, 1, outcome) :
         LET r == fetch_page(f, NoToken, outcome, a, 0) IN
         /\ remote' = IF outcome = "ok" THEN Learn(f, 1, a) ELSE remote
         /\ syncFetches' = [syncFetches EXCEPT ![f] = @ + 1]
         /\ lock' = NoOwner
         /\ IF Raises(outcome)
            THEN /\ pc' = [pc EXCEPT ![c] = "done"]
                 /\ ret' = [ret EXCEPT ![c] = [kind |-> "raised", photo |-> <<>>]]
                 /\ UNCHANGED <<cache, is_refreshing, tasks>>
            ELSE /\ cache' = DictSet(cache, f, r.files)
                 /\ pc' = [pc EXCEPT ![c] = "ec_ret"]
                 /\ UNCHANGED ret
                 /\ IF FirstPageIsAll(r.next)
                    THEN /\ is_refreshing' = DictSet(is_refreshing, f, FALSE)
                         /\ UNCHANGED tasks
                    ELSE /\ tasks' = StartThread(f)
                         /\ UNCHANGED is_refreshing
    /\ UNCHANGED <<folder, files, fc, app>>

(* ----------------------- callers: get_random_photo --------------------- *)
\* lines 143-144, after ensure_cache returned to get_random_photo:
\* with self._lock: files = self._cache.get(folder_id)
get_random_photo_read(c) ==
    LET f == folder[c] IN
    /\ pc[c] = "ec_ret"
    /\ lock = NoOwner
    /\ files' = [files EXCEPT ![c] =
                    IF f \in DOMAIN cache THEN [some |-> TRUE, list |-> cache[f]]
                    ELSE NoFiles]
    /\ pc' = [pc EXCEPT ![c] = "grp_choose"]
    /\ UNCHANGED <<remote, cache, is_refreshing, lock, tasks, folder, ret,
                   syncFetches, fc, app>>

\* mutant of random_choice: the choice is made in self._cache[folder_id] as
\* it is now, not in the list read under the lock
random_choice_unlocked(c) ==
    LET now == IF folder[c] \in DOMAIN cache THEN cache[folder[c]] ELSE <<>> IN
    IF now = <<>>
    THEN {[kind |-> "null", photo |-> <<>>]}
    ELSE {[kind |-> "photo", photo |-> now[i]] : i \in 1..Len(now)}
\* lines 146-149: if not files: return None; return random.choice(files)
random_choice(c) ==
    IF files[c].list = <<>>
    THEN {[kind |-> "null", photo |-> <<>>]}
    ELSE {[kind |-> "photo", photo |-> files[c].list[i]] : i \in 1..Len(files[c].list)}

get_random_photo_choose(c) ==
    /\ pc[c] = "grp_choose"
    /\ \E r \in random_choice(c) : ret' = [ret EXCEPT ![c] = r]
    /\ pc' = [pc EXCEPT ![c] = "done"]
    /\ files' = [files EXCEPT ![c] = NoFiles]
    /\ UNCHANGED <<remote, cache, is_refreshing, lock, tasks, folder,
                   syncFetches, fc, app>>

(* ------------------- the thread _background_refresh_task --------------- *)
\* mutant of background_fetch: each turn of the loop also stores what it has
\* so far in the cache (the incremental update lines 92-95 decide against)
background_fetch_incremental(f, t) ==
    /\ t \in DOMAIN tasks[f]
    /\ tasks[f][t].pc = "fetch"
    /\ \E outcome \in FetchOutcomes :
       \E a \in AnswersTo(f, PageNo(tasks[f][t].page_token), outcome) :
         LET r == fetch_page(f, tasks[f][t].page_token, outcome, a, 1)
         IN  /\ remote' = IF outcome = "ok"
                          THEN Learn(f, PageNo(tasks[f][t].page_token), a)
                          ELSE remote
             /\ IF Raises(outcome)
                THEN /\ tasks' = EndThread(f, t)
                     /\ UNCHANGED cache
                ELSE /\ tasks' = [tasks EXCEPT
                                 ![f][t].all_files = @ \o r.files,
                                 ![f][t].page_token = r.next,
                                 ![f][t].ok = @ /\ outcome = "ok",
                                 ![f][t].pc = IF r.next = NoToken THEN "lock"
                                              ELSE "fetch"]
                     /\ cache' = DictSet(cache, f, tasks[f][t].all_files \o r.files)
    /\ UNCHANGED <<is_refreshing, lock, pc, folder, files, ret, syncFetches, fc, app>>

\* mutant of background_fetch: the loop runs inside with self._lock
background_fetch_locked(f, t) ==
    /\ t \in DOMAIN tasks[f]
    /\ tasks[f][t].pc = "fetch"
    /\ \/ lock = NoOwner
       \/ lock = TaskOwner /\ tasks[f][t].page_token # NoToken
    /\ \E outcome \in FetchOutcomes :
       \E a \in AnswersTo(f, PageNo(tasks[f][t].page_token), outcome) :
         LET r == fetch_page(f, tasks[f][t].page_token, outcome, a, 1)
         IN  /\ remote' = IF outcome = "ok"
                          THEN Learn(f, PageNo(tasks[f][t].page_token), a)
                          ELSE remote
             /\ IF Raises(outcome)
                THEN /\ tasks' = EndThread(f, t)
                     /\ lock' = NoOwner
                ELSE /\ tasks' = [tasks EXCEPT
                                 ![f][t].all_files = @ \o r.files,
                                 ![f][t].page_token = r.next,
                                 ![f][t].ok = @ /\ outcome = "ok",
                                 ![f][t].pc = IF r.next = NoToken THEN "swap"
                                              ELSE "fetch"]
                     /\ lock' = TaskOwner
    /\ UNCHANGED <<cache, is_refreshing, pc, folder, files, ret, syncFetches, fc, app>>

\* mutant of background_fetch: all_files = files instead of extend
background_fetch_overwrite(f, t) ==
    /\ t \in DOMAIN tasks[f]
    /\ tasks[f][t].pc = "fetch"
    /\ \E outcome \in FetchOutcomes :
       \E a \in AnswersTo(f, PageNo(tasks[f][t].page_token), outcome) :
         LET r == fetch_page(f, tasks[f][t].page_token, outcome, a, 1)
         IN  /\ remote' = IF outcome = "ok"
                          THEN Learn(f, PageNo(tasks[f][t].page_token), a)
                          ELSE remote
             /\ IF Raises(outcome)
                THEN tasks' = EndThread(f, t)
                ELSE tasks' = [tasks EXCEPT
                                 ![f][t].all_files = r.files,
                                 ![f][t].page_token = r.next,
                                 ![f][t].ok = @ /\ outcome = "ok",
                                 ![f][t].pc = IF r.next = NoToken THEN "lock"
                                              ELSE "fetch"]
    /\ UNCHANGED <<cache, is_refreshing, lock, pc, folder, files, ret,
                   syncFetches, fc, app>>

\* lines 88-99: one turn of the loop: fetch a page without the lock, extend
\* all_files, leave the loop when there is no continuation token. An
\* exception other than HttpError ends the thread.
background_fetch(f, t) ==
    /\ t \in DOMAIN tasks[f]
    /\ tasks[f][t].pc = "fetch"
    /\ \E outcome \in FetchOutcomes :
       \E a \in AnswersTo(f, PageNo(tasks[f][t].page_token), outcome) :
         LET r == fetch_page(f, tasks[f][t].page_token, outcome, a, 1)
         IN  /\ remote' = IF outcome = "ok"
                          THEN Learn(f, PageNo(tasks[f][t].page_token), a)
                          ELSE remote
             /\ IF Raises(outcome)
                THEN tasks' = EndThread(f, t)
                ELSE tasks' = [tasks EXCEPT
                                 ![f][t].all_files = @ \o r.files,
                                 ![f][t].page_token = r.next,
                                 ![f][t].ok = @ /\ outcome = "ok",
                                 ![f][t].pc = IF r.next = NoToken THEN "lock"
                                              ELSE "fetch"]
    /\ UNCHANGED <<cache, is_refreshing, lock, pc, folder, files, ret,
                   syncFetches, fc, app>>

\* line 101: with self._lock: (acquire)
background_acquire(f, t) ==
    /\ t \in DOMAIN tasks[f]
    /\ tasks[f][t].pc = "lock"
    /\ lock = NoOwner
    /\ lock' = TaskOwner
    /\ tasks' = [tasks EXCEPT ![f][t].pc = "swap"]
    /\ UNCHANGED <<remote, cache, is_refreshing, pc, folder, files, ret,
                   syncFetches, fc, app>>

\* lines 102-103 and the release: the swap of the cached list and the flag;
\* the thread ends
background_swap(f, t) ==
    /\ t \in DOMAIN tasks[f]
    /\ tasks[f][t].pc = "swap"
    /\ cache' = DictSet(cache, f, tasks[f][t].all_files)
    /\ is_refreshing' = DictSet(is_refreshing, f, FALSE)
    /\ lock' = NoOwner
    /\ tasks' = EndThread(f, t)
    /\ UNCHANGED <<remote, pc, folder, files, ret, syncFetches, fc, app>>

(* ------------------------------- Spec ---------------------------------- *)
Next ==
    \/ \E c \in Callers : Call(c)
    \/ \E c \in Callers : Return(c)
    \/ \E c \in Callers : ensure_cache(c)
    \/ \E c \in Callers : ensure_cache_first_page(c)
    \/ \E c \in Callers : get_random_photo_read(c)
    \/ \E c \in Callers : get_random_photo_choose(c)
    \/ \E f \in Folders : \E t \in DOMAIN tasks[f] : background_fetch(f, t)
    \/ \E f \in Folders : \E t \in DOMAIN tasks[f] : background_acquire(f, t)
    \/ \E f \in Folders : \E t \in DOMAIN tasks[f] : background_swap(f, t)

Spec == Init /\ [][Next]_vars

\* What the scheduling gives: a thread that can run does run. A background
\* thread goes on with its loop and its swap, and a request thread inside
\* ensure_cache or get_random_photo goes on to its end. Nothing makes a new
\* request come, and threading.Lock promises no order among those who wait:
\* a step that needs the lock is only weakly fair.
Fairness ==
    /\ \A c \in Callers :
          /\ WF_vars(ensure_cache(c))
          /\ WF_vars(ensure_cache_first_page(c))
          /\ WF_vars(get_random_photo_choose(c))
    /\ \A f \in Folders :
          /\ WF_vars(\E t \in DOMAIN tasks[f] : background_fetch(f, t))
          /\ WF_vars(\E t \in DOMAIN tasks[f] : background_acquire(f, t))
          /\ WF_vars(\E t \in DOMAIN tasks[f] : background_swap(f, t))
SpecFair == Spec /\ Fairness

(* ---------------------------- get_file_content ------------------------ *)
cacheVars == <<remote, cache, is_refreshing, lock, tasks, pc, folder, files, ret,
               syncFetches>>
\* what the actions of get_file_content leave alone
notFc == <<cacheVars, app>>

\* A request calls get_file_content(file_id); the file has some mimeType and
\* thumbnailLink, and self.creds is valid or has expired.
FcCall ==
    /\ fc.pc = "idle"
    /\ \E m \in MimeTypes, l \in ThumbnailLinks, v \in BOOLEAN :
         fc' = [FcIdle EXCEPT !.pc = "meta", !.mime_type = m,
                              !.thumbnail_link = l, !.creds_valid = v]
    /\ UNCHANGED notFc

\* lines 161-214: files().get(...).execute(); an HttpError is logged and
\* raised again, any other exception is not caught. With the metadata the
\* path is chosen and the thumbnail URL computed.
get_file_content_meta ==
    /\ fc.pc = "meta"
    /\ \E outcome \in {"ok", "http_error", "other_error"} :
         IF outcome # "ok"
         THEN fc' = [fc EXCEPT !.pc = "raised", !.raised = "metadata"]
         ELSE IF UsesThumbnail(fc.thumbnail_link)
              THEN fc' = [fc EXCEPT !.pc = "thumb",
                                    !.url = download_url(fc.thumbnail_link.val)]
              ELSE fc' = [fc EXCEPT !.pc = "download"]
    /\ UNCHANGED notFc

\* lines 216-242: the thumbnail request and its validation
get_file_content_thumbnail ==
    /\ fc.pc = "thumb"
    /\ \E outcome \in ThumbOutcomes :
         IF thumbnail_valid(outcome)
         THEN fc' = [fc EXCEPT !.pc = "returned", !.thumb = outcome,
                               !.ret = [bytes |-> "thumbnail",
                                        mime |-> thumbnail_mime(fc.mime_type)]]
         ELSE IF thumbnail_caught(outcome)
              THEN fc' = [fc EXCEPT !.pc = "download", !.thumb = outcome]
              ELSE fc' = [fc EXCEPT !.pc = "raised", !.thumb = outcome,
                                    !.raised = "thumbnail"]
    /\ UNCHANGED notFc

\* lines 246 and 265-276, then 249 and 263: _download_raw refreshes the
\* credentials when they are not valid and downloads the file; nothing
\* catches what creds.refresh, requests.get or raise_for_status raise.
get_file_content_download ==
    /\ fc.pc = "download"
    /\ \E outcome \in DownloadOutcomes :
         /\ outcome = "refresh_error" => ~fc.creds_valid
         /\ LET n == fc.ndownload + 1
                r == IF fc.creds_valid THEN fc.nrefresh ELSE fc.nrefresh + 1
            IN  IF outcome = "refresh_error"
                THEN fc' = [fc EXCEPT !.pc = "raised", !.raised = "refresh",
                                      !.ndownload = n, !.nrefresh = r]
                ELSE IF outcome # "ok"
                THEN fc' = [fc EXCEPT !.pc = "raised", !.raised = "download",
                                      !.ndownload = n, !.nrefresh = r,
                                      !.creds_valid = TRUE]
                ELSE IF IsHeic(fc.mime_type)
                THEN fc' = [fc EXCEPT !.pc = "convert", !.ndownload = n,
                                      !.nrefresh = r, !.creds_valid = TRUE]
                ELSE fc' = [fc EXCEPT !.pc = "returned", !.ndownload = n,
                                      !.nrefresh = r, !.creds_valid = TRUE,
                                      !.ret = [bytes |-> "raw", mime |-> fc.mime_type]]
    /\ UNCHANGED notFc

\* lines 250-261: Image.open and save as JPEG; on any exception the raw
\* stream is returned with the file's own MIME type
get_file_content_convert ==
    /\ fc.pc = "convert"
    /\ \E outcome \in {"ok", "error"} :
         IF outcome = "ok"
         THEN fc' = [fc EXCEPT !.pc = "returned", !.convert = outcome,
                               !.ret = [bytes |-> "jpeg_of_raw", mime |-> ImageJpeg]]
         ELSE fc' = [fc EXCEPT !.pc = "returned", !.convert = outcome,
                               !.ret = [bytes |-> "raw", mime |-> fc.mime_type]]
    /\ UNCHANGED notFc

\* the caller has the result; the next request may come
FcReturn ==
    /\ fc.pc \in {"returned", "raised"}
    /\ fc' = FcIdle
    /\ UNCHANGED notFc

NextContent ==
    \/ FcCall
    \/ get_file_content_meta
    \/ get_file_content_thumbnail
    \/ get_file_content_download
    \/ get_file_content_convert
    \/ FcReturn

SpecContent == Init /\ [][NextContent]_vars

(* ------------------------------- main.py ------------------------------- *)
\* what the actions of main.py leave alone
notApp == <<cacheVars, fc>>

\* lines 15-22: the environment the process starts in
load_config ==
    /\ app.pc = "boot"
    /\ \E pw \in Words, key \in Words, fid \in {NoEnv, Env(""), Env("fA")},
          j \in JsonCreds, fe \in BOOLEAN :
         app' = [app EXCEPT !.pc = "credentials", !.APP_PASSWORD = pw,
                            !.SECRET_KEY = key, !.DRIVE_FOLDER_ID = fid,
                            !.json_creds = j, !.file_exists = fe]
    /\ UNCHANGED notApp

\* lines 36 and 29: DriveService() starts with self._get_credentials()
DriveService_get_credentials ==
    /\ app.pc = "credentials"
    /\ \E lib \in LibOutcomes :
         LET got == get_credentials(app.json_creds, app.file_exists, lib)
         IN  app' = [app EXCEPT !.got = got,
                                !.pc = IF got.error = "none" THEN "build"
                                       ELSE "failed"]
    /\ UNCHANGED notApp

\* lines 30-34: with the credentials, build("drive", "v3", ...) and the
\* empty cache; building the client may fetch the API description
DriveService_build ==
    /\ app.pc = "build"
    /\ \E n \in BOOLEAN :
         app' = [app EXCEPT !.pc = "serving", !.built = TRUE, !.network = n,
                            !.drive_service = TRUE]
    /\ UNCHANGED notApp

\* lines 37-39: a ValueError of the construction leaves drive_service None
\* and the application starts; another exception ends the import of main.py
DriveService_failed ==
    /\ app.pc = "failed"
    /\ app' = [app EXCEPT !.pc = IF app.got.error = "ValueError" THEN "serving"
                                 ELSE "crashed"]
    /\ UNCHANGED notApp

\* a request comes with the cookie of the browser or with any other one
RequestTokens == {app.jar} \cup Tokens

\* lines 98-113: POST /api/login
login ==
    /\ app.pc = "serving"
    /\ \E password \in Words :
         LET req == [endpoint |-> "login", token |-> app.jar, arg |-> password] IN
         IF password = app.APP_PASSWORD
         THEN app' = [app EXCEPT !.req = req, !.jar = Env(app.SECRET_KEY),
                         !.resp = [NoResponse EXCEPT !.status = 200,
                                       !.set_cookie = Env(app.SECRET_KEY)]]
         ELSE app' = [app EXCEPT !.req = req,
                         !.resp = [NoResponse EXCEPT !.status = 401]]
    /\ UNCHANGED notApp

\* lines 125-128: GET /api/logout
logout ==
    /\ app.pc = "serving"
    /\ app' = [app EXCEPT !.req = [endpoint |-> "logout", token |-> app.jar, arg |-> ""],
                          !.jar = NoEnv,
                          !.resp = [NoResponse EXCEPT !.status = 200]]
    /\ UNCHANGED notApp

\* lines 131-133: GET /api/emotions
get_emotions ==
    /\ app.pc = "serving"
    /\ \E token \in RequestTokens :
         LET req == [endpoint |-> "emotions", token |-> token, arg |-> ""] IN
         IF ~check_auth(token, app.SECRET_KEY)
         THEN app' = [app EXCEPT !.req = req,
                         !.resp = [NoResponse EXCEPT !.status = 401]]
         ELSE app' = [app EXCEPT !.req = req,
                         !.resp = [NoResponse EXCEPT !.status = 200]]
    /\ UNCHANGED notApp

\* lines 136-169: GET /api/draw/{emotion_id}
draw_photo ==
    /\ app.pc = "serving"
    /\ \E token \in RequestTokens, emotion_id \in EmotionArgs :
         LET req == [endpoint |-> "draw", token |-> token, arg |-> emotion_id] IN
         IF ~check_auth(token, app.SECRET_KEY)
         THEN app' = [app EXCEPT !.req = req,
                         !.resp = [NoResponse EXCEPT !.status = 401]]
         ELSE IF emotion_id \notin DOMAIN CAPTIONS
         THEN app' = [app EXCEPT !.req = req,
                         !.resp = [NoResponse EXCEPT !.status = 404]]
         ELSE IF ~app.drive_service
         THEN app' = [app EXCEPT !.req = req,
                         !.resp = [NoResponse EXCEPT !.status = 503]]
         ELSE IF ~FolderConfigured(app.DRIVE_FOLDER_ID)
         THEN \E caption \in CAPTIONS[emotion_id] :
                app' = [app EXCEPT !.req = req,
                         !.resp = [NoResponse EXCEPT !.status = 200,
                                     !.body.caption = caption,
                                     !.body.emotion_id = emotion_id]]
         ELSE \E result \in RandomPhotoResults, caption \in CAPTIONS[emotion_id] :
                app' = [app EXCEPT !.req = req,
                         !.resp = [NoResponse EXCEPT !.status = 200,
                                     !.called = "get_random_photo",
                                     !.result = result,
                                     !.body.photo_url = final_url(result),
                                     !.body.caption = caption,
                                     !.body.emotion_id = emotion_id]]
    /\ UNCHANGED notApp

\* lines 172-181: GET /api/image/{file_id}
proxy_image ==
    /\ app.pc = "serving"
    /\ \E token \in RequestTokens, file_id \in {d.id : d \in DriveFiles} :
         LET req == [endpoint |-> "image", token |-> token, arg |-> file_id] IN
         IF ~check_auth(token, app.SECRET_KEY)
         THEN app' = [app EXCEPT !.req = req,
                         !.resp = [NoResponse EXCEPT !.status = 401]]
         ELSE IF ~app.drive_service
         THEN app' = [app EXCEPT !.req = req,
                         !.resp = [NoResponse EXCEPT !.status = 503]]
         ELSE \E result \in ContentResults :
                IF result.kind = "returned"
                THEN app' = [app EXCEPT !.req = req,
                         !.resp = [NoResponse EXCEPT !.status = 200,
                                     !.called = "get_file_content",
                                     !.result = result,
                                     !.body.bytes = result.bytes,
                                     !.body.media_type = result.mime]]
                ELSE IF proxy_caught(result.raised)
                THEN app' = [app EXCEPT !.req = req,
                         !.resp = [NoResponse EXCEPT !.status = 404,
                                     !.called = "get_file_content",
                                     !.result = result]]
                ELSE app' = [app EXCEPT !.req = req,
                         !.resp = [NoResponse EXCEPT !.status = 500,
                                     !.called = "get_file_content",
                                     !.result = result]]
    /\ UNCHANGED notApp

NextApp ==
    \/ load_config
    \/ DriveService_get_credentials
    \/ DriveService_build
    \/ DriveService_failed
    \/ login
    \/ logout
    \/ get_emotions
    \/ draw_photo
    \/ proxy_image

SpecApp == Init /\ [][NextApp]_vars


(* ========================= the folder cache (Spec) ===================== *)
\* self._cache.get(folder_id), as a reader sees it
CachedList(f) == IF f \in DOMAIN cache THEN [some |-> TRUE, list |-> cache[f]]
                 ELSE NoFiles
\* self._is_refreshing.get(folder_id, False)
Flag(f) == f \in DOMAIN is_refreshing /\ is_refreshing[f]
\* pages 1..k of folder f as one list
RECURSIVE WholePages(_, _, _)
WholePages(f, k, gen) ==
    IF k = 0 THEN <<>>
    ELSE WholePages(f, k - 1, gen) \o Page(f, k, remote[f][k].n, gen)
\* a listing of one page, with no file and no continuation token
EmptyListing == <<[n |-> 0, more |-> FALSE]>>

\* C1: for every folder, whatever the interleaving of callers and threads,
\* at most one _background_refresh_task thread is in flight at any time. A
\* thread is in flight from its start to the end of its with-block (lines
\* 101-103), after which only the log message of line 105 is left.
C1_OneRefreshInFlight == \A f \in Folders : Len(tasks[f]) <= 1
\* two callers have come back from ensure_cache(f) with nothing cached for f
\* while one refresh of f is in flight
C1_Witness ==
    \E f \in Folders : \E c, d \in Callers :
        /\ c # d /\ folder[c] = f /\ folder[d] = f
        /\ pc[c] = "ec_ret" /\ pc[d] = "ec_ret"
        /\ CachedList(f) = [some |-> TRUE, list |-> <<>>]
        /\ Len(tasks[f]) = 1

\* C2: for every folder at most one synchronous first-page fetch is ever
\* made; a caller makes it only while the folder has no cache entry, and
\* while holding the lock under which it set the flag.
C2_OneSyncFetch ==
    /\ \A f \in Folders : syncFetches[f] <= 1
    /\ \A c \in Callers : pc[c] = "ec_fetch" =>
          /\ lock = CallerOwner(c)
          /\ folder[c] \notin DOMAIN cache
          /\ Flag(folder[c])
          /\ syncFetches[folder[c]] = 0
\* two callers have come back from ensure_cache(f), the cache of f is still
\* empty, and one synchronous fetch was made
C2_Witness ==
    \E f \in Folders : \E c, d \in Callers :
        /\ c # d /\ folder[c] = f /\ folder[d] = f
        /\ pc[c] = "ec_ret" /\ pc[d] = "ec_ret"
        /\ CachedList(f) = [some |-> TRUE, list |-> <<>>]
        /\ syncFetches[f] = 1

\* C3: the cached list of a folder changes in two ways only: the synchronous
\* fetch stores the first page where there was no entry, and a thread that
\* has left its loop (no continuation token) stores all it accumulated in
\* one assignment and ends. So the list a reader sees is always empty, the
\* first page as fetched synchronously, or whole pages 1..k as fetched by one
\* thread: never a partial accumulation, never records of two fetchers.
C3_State ==
    \A f \in DOMAIN cache :
        \/ cache[f] = <<>>
        \/ Len(remote[f]) >= 1 /\ cache[f] = Page(f, 1, remote[f][1].n, 0)
        \/ \E k \in 1..Len(remote[f]) : cache[f] = WholePages(f, k, 1)
C3_Step ==
    \A f \in Folders :
        CachedList(f)' # CachedList(f) =>
            \/ /\ f \notin DOMAIN cache
               /\ \E c \in Callers : /\ pc[c] = "ec_fetch" /\ folder[c] = f
                                     /\ pc'[c] = "ec_ret"
            \/ \E t \in DOMAIN tasks[f] :
                  /\ tasks[f][t].pc = "swap"
                  /\ tasks[f][t].page_token = NoToken
                  /\ cache'[f] = tasks[f][t].all_files
                  /\ tasks'[f] = Remove(tasks[f], t)
C3_AtomicSwap == [](C3_State) /\ [][C3_Step]_vars
\* readers see the result of a finished refresh of two pages or more
C3_Witness ==
    \E f \in DOMAIN cache :
        /\ Len(remote[f]) >= 2
        /\ cache[f] = WholePages(f, Len(remote[f]), 1)
        /\ Len(cache[f]) >= 2
        /\ tasks[f] = <<>>

\* C4: get_random_photo reads the folder's list while the lock is free for
\* it to take, and returns null exactly when that list is absent or empty,
\* and otherwise one of the records of the list as read, also when a
\* refresh has replaced the cached list since.
C4_Step ==
    \A c \in Callers :
        /\ (pc[c] = "ec_ret" /\ pc'[c] = "grp_choose") =>
              /\ lock = NoOwner
              /\ files'[c] = CachedList(folder[c])
        /\ (pc[c] = "grp_choose" /\ pc'[c] # "grp_choose") =>
              /\ pc'[c] = "done"
              /\ ret'[c].kind \in {"null", "photo"}
              /\ ret'[c].kind = "null" <=> (~files[c].some \/ files[c].list = <<>>)
              /\ ret'[c].kind = "photo" => ret'[c].photo \in Elems(files[c].list)
C4_RandomPhoto == [][C4_Step]_vars
\* a photo was returned that the cache no longer holds: a refresh replaced
\* the list after it was read
C4_Witness ==
    \E c \in Callers :
        /\ pc[c] = "done" /\ ret[c].kind = "photo"
        /\ ret[c].photo \notin Elems(CachedList(folder[c]).list)
        /\ CachedList(folder[c]).list # <<>>

\* C5: when the synchronous fetch of a never-seen folder answers no file and
\* no continuation token, ensure_cache stores the empty list, clears the
\* flag, starts no thread and releases the lock; and get_random_photo on a
\* folder whose listing is one empty page returns null.
C5_State ==
    \A c \in Callers :
        (pc[c] = "done" /\ remote[folder[c]] = EmptyListing) => ret[c].kind = "null"
C5_Step ==
    \A c \in Callers :
        (pc[c] = "ec_fetch" /\ pc'[c] # "ec_fetch"
           /\ remote'[folder[c]] = EmptyListing) =>
            /\ pc'[c] = "ec_ret"
            /\ CachedList(folder[c])' = [some |-> TRUE, list |-> <<>>]
            /\ ~Flag(folder[c])'
            /\ tasks' = tasks
            /\ lock' = NoOwner
C5_EmptyFolder == [](C5_State) /\ [][C5_Step]_vars
\* get_random_photo has returned null for a folder of one empty page that
\* was fetched synchronously, no thread runs and the flag is cleared
C5_Witness ==
    \E c \in Callers :
        /\ pc[c] = "done" /\ ret[c].kind = "null"
        /\ remote[folder[c]] = EmptyListing
        /\ syncFetches[folder[c]] = 1
        /\ tasks[folder[c]] = <<>>
        /\ ~Flag(folder[c])
        /\ \A d \in Callers \ {c} : pc[d] = "idle"

\* C6 as stated: whenever a background thread is in its page-fetching loop
\* the lock is free.
C6_LockFreeWhileFetching ==
    (\E f \in Folders : \E t \in DOMAIN tasks[f] : tasks[f][t].pc = "fetch")
        => lock = NoOwner
\* C6 as amended: a background thread never holds the lock while it fetches
\* pages: when a thread is in its loop, the lock is free, or held by a
\* request thread, or held by another thread that has left its loop and is
\* swapping. So callers wait for no page fetch of a refresh.
C6_NoLockWhileFetching ==
    \A f \in Folders : \A t \in DOMAIN tasks[f] :
        (tasks[f][t].pc = "fetch" /\ lock = TaskOwner) =>
            \E g \in Folders : \E u \in DOMAIN tasks[g] : tasks[g][u].pc = "swap"
\* get_random_photo has returned a photo of a folder whose refresh is still
\* between two page fetches
C6_Witness ==
    \E c \in Callers :
        /\ pc[c] = "done" /\ ret[c].kind = "photo"
        /\ \E t \in DOMAIN tasks[folder[c]] :
              /\ tasks[folder[c]][t].pc = "fetch"
              /\ tasks[folder[c]][t].page_token # NoToken

\* C7: when the folder has a non-empty cached list, ensure_cache returns at
\* once: no page is fetched, no thread started, the cache, the flags and the
\* lock are as before.
C7_Step ==
    \A c \in Callers :
        (pc[c] = "ec_wait" /\ pc'[c] # "ec_wait"
           /\ folder[c] \in DOMAIN cache /\ cache[folder[c]] # <<>>) =>
            /\ pc'[c] = "ec_ret"
            /\ UNCHANGED <<cache, is_refreshing, tasks, remote, syncFetches, lock>>
C7_NoRefreshWhenCached == [][C7_Step]_vars
\* two callers have come back from ensure_cache(f); the list is still the
\* whole first page of the one synchronous fetch and nothing is running, so
\* the other caller found the data there
C7_Witness ==
    \E f \in DOMAIN cache : \E c, d \in Callers :
        /\ c # d /\ folder[c] = f /\ folder[d] = f
        /\ pc[c] = "ec_ret" /\ pc[d] = "ec_ret"
        /\ cache[f] # <<>> /\ cache[f][1].gen = 0
        /\ ~Flag(f) /\ tasks[f] = <<>>

\* C13: no page-fetch failure leaves the cache layer: no call of
\* ensure_cache / get_random_photo ends by raising, and a background thread
\* ends only by its swap under the lock, never by an exception.
C13_NoCallRaises == \A c \in Callers : ret[c].kind # "raised"
C13_ThreadEndsBySwap ==
    \A f \in Folders :
        Len(tasks'[f]) < Len(tasks[f]) =>
            \E t \in DOMAIN tasks[f] : tasks[f][t].pc = "swap"
C13_FetchErrorsNeverRaised == [](C13_NoCallRaises) /\ [][C13_ThreadEndsBySwap]_vars

\* C20: when the synchronous fetch of a never-seen folder answers a first
\* page with a continuation token, ensure_cache stores that page as the
\* cached list and starts one thread, the only one of the folder, with the
\* flag set; the flag stays set as long as the thread runs, and it is the
\* thread's swap that clears it.
C20_State ==
    \A f \in Folders : tasks[f] # <<>> => (Flag(f) /\ f \in DOMAIN cache)
C20_Step ==
    /\ \A c \in Callers :
          (/\ pc[c] = "ec_fetch" /\ pc'[c] = "ec_ret"
           /\ Len(remote'[folder[c]]) >= 1 /\ remote'[folder[c]][1].more) =>
              /\ folder[c] \notin DOMAIN cache
              /\ cache'[folder[c]] = Page(folder[c], 1, remote'[folder[c]][1].n, 0)
              /\ tasks[folder[c]] = <<>>
              /\ Len(tasks'[folder[c]]) = 1
              /\ tasks'[folder[c]][1].pc = "fetch"
              /\ Flag(folder[c])'
    /\ \A f \in Folders :
          (tasks[f] # <<>> /\ ~Flag(f)') =>
              /\ tasks[f][1].pc = "swap"
              /\ tasks'[f] = <<>>
C20_FirstPageThenThread == [](C20_State) /\ [][C20_Step]_vars
\* the cached list is the first page of the synchronous fetch, which came
\* with a token; the thread has fetched the rest and waits for the lock,
\* the flag is still set
C20_Witness ==
    \E f \in DOMAIN cache :
        /\ Len(remote[f]) >= 2 /\ remote[f][1].more
        /\ cache[f] # <<>> /\ cache[f] = Page(f, 1, remote[f][1].n, 0)
        /\ Len(tasks[f]) = 1 /\ tasks[f][1].pc = "lock"
        /\ Flag(f)

\* refresh work for folder f is in flight: its synchronous first-page fetch
\* or its background thread
RefreshInFlight(f) ==
    \/ tasks[f] # <<>>
    \/ \E c \in Callers : pc[c] = "ec_fetch" /\ folder[c] = f
\* C21: the flag of a folder is never set with no synchronous fetch and no
\* thread in flight for the folder, and a flag that is set is eventually
\* cleared, whatever the outcome of the page fetches.
C21_NoFlagWithoutWork == \A f \in Folders : Flag(f) => RefreshInFlight(f)
C21_FlagEventuallyCleared ==
    /\ [](C21_NoFlagWithoutWork)
    /\ \A f \in Folders : Flag(f) ~> ~Flag(f)

\* the ids of the records of a list
Ids(list) == {list[i].id : i \in 1..Len(list)}
\* the number of pages a thread has taken into all_files, when none of its
\* fetches failed
PagesTaken(f, T) ==
    IF T.pc = "fetch" THEN PageNo(T.page_token) - 1 ELSE Len(remote[f])
\* C22: a thread all of whose page fetches succeeded holds in all_files the
\* pages it fetched so far, whole and in order; when it leaves the loop
\* these are all the pages of the folder, the last one being the page that
\* came with no continuation token; its swap installs exactly that list,
\* which holds every record cached before (the first page of the
\* synchronous fetch among them).
C22_State ==
    \A f \in Folders : \A t \in DOMAIN tasks[f] :
        tasks[f][t].ok =>
            /\ PagesTaken(f, tasks[f][t]) <= Len(remote[f])
            /\ tasks[f][t].all_files = WholePages(f, PagesTaken(f, tasks[f][t]), 1)
            /\ \A p \in 1..PagesTaken(f, tasks[f][t]) :
                  remote[f][p].more <=>
                      (p < PagesTaken(f, tasks[f][t]) \/ tasks[f][t].pc = "fetch")
            /\ tasks[f][t].pc # "fetch" => Len(remote[f]) >= 1
C22_Step ==
    \A f \in Folders :
        (/\ tasks[f] # <<>> /\ tasks[f][1].pc = "swap" /\ tasks[f][1].ok
         /\ tasks'[f] = <<>>) =>
            /\ ~remote[f][Len(remote[f])].more
            /\ CachedList(f)'.list = WholePages(f, Len(remote[f]), 1)
            /\ Ids(CachedList(f).list) \subseteq Ids(CachedList(f)'.list)
C22_AllPagesInstalled == [](C22_State) /\ [][C22_Step]_vars
\* a refresh has ended and the cached list is every page of a listing of
\* two pages or more whose last page, the one without a token, has files:
\* no fetch of that thread can have failed
C22_Witness ==
    \E f \in DOMAIN cache :
        /\ Len(remote[f]) >= 2
        /\ ~remote[f][Len(remote[f])].more
        /\ remote[f][Len(remote[f])].n > 0
        /\ remote[f][1].n > 0
        /\ cache[f] = WholePages(f, Len(remote[f]), 1)
        /\ tasks[f] = <<>> /\ ~Flag(f)

\* caller c leaves the lock of ensure_cache(f) having set the flag and
\* started one thread, with no page fetched and the cache as it was
RestartsRefresh(c) ==
    LET f == folder[c] IN
    /\ pc'[c] = "ec_ret"
    /\ Flag(f)'
    /\ Len(tasks'[f]) = 1 /\ tasks'[f][1].pc = "fetch"
    /\ UNCHANGED <<cache, remote, syncFetches, lock>>
\* caller c goes through the lock of ensure_cache(f) while f has a cache
\* entry that is empty
EntersWithEmptyEntry(c) ==
    /\ pc[c] = "ec_wait" /\ pc'[c] # "ec_wait"
    /\ folder[c] \in DOMAIN cache /\ cache[folder[c]] = <<>>
\* C23: every call of ensure_cache(f) made while f has an empty cache entry
\* and no refresh of f is in flight (no synchronous fetch, no thread) sets
\* the flag and starts exactly one thread, and fetches no page itself.
C23_EmptyEntryRestartsRefresh ==
    [][\A c \in Callers :
          (EntersWithEmptyEntry(c) /\ ~RefreshInFlight(folder[c]))
              => RestartsRefresh(c)]_vars
\* the same for the calls that find the flag of f cleared, which is what
\* line 117 tests
C23_RestartsWhenFlagClear ==
    [][\A c \in Callers :
          (EntersWithEmptyEntry(c) /\ ~Flag(folder[c]))
              => RestartsRefresh(c)]_vars

\* C24: a cached list that is non-empty is non-empty in every later state:
\* no step, the swap of a thread whose page fetches failed included, puts an
\* empty list in the place of a non-empty one.
C24_NonEmptyStaysNonEmpty ==
    [][\A f \in Folders :
          CachedList(f).list # <<>> => CachedList(f)'.list # <<>>]_vars

(* ===================== get_file_content (SpecContent) ================== *)
\* C8 as stated: once the metadata is there nothing raises to the caller.
C8_OnlyMetadataRaises == fc.pc = "raised" => fc.raised = "metadata"
\* C8 as amended: get_file_content ends in a returned (bytes, MIME type)
\* pair unless the metadata fetch fails or the full download fails (the
\* credential refresh, the request or its HTTP status); the thumbnail fetch
\* and the transcode never raise to the caller.
C8_RaisesOnlyMetadataOrDownload ==
    /\ fc.pc = "raised" => fc.raised \in {"metadata", "refresh", "download"}
    /\ fc.pc = "returned" => fc.ret.bytes # "none"
    /\ fc.raised # "none" => fc.pc = "raised"
\* the thumbnail was no image and the transcode failed: the raw bytes came
\* back, nothing was raised
C8_Witness ==
    /\ fc.pc = "returned" /\ fc.thumb = "image_bytes"
    /\ IsHeic(fc.mime_type) /\ fc.ret = [bytes |-> "raw", mime |-> fc.mime_type]

\* C9: a failure on the thumbnail path (HTTP status, timeout, transport
\* error, non-image Content-Type, undecodable bytes) is never raised to the
\* caller and is followed by exactly one call of _download_raw.
C9_ThumbnailFailureFallsBack ==
    fc.thumb \notin {"none", "ok"} =>
        /\ fc.raised # "thumbnail"
        /\ fc.pc \in {"download", "convert", "returned", "raised"}
        /\ fc.pc = "download" => fc.ndownload = 0
        /\ fc.pc # "download" => fc.ndownload = 1
C9_Witness ==
    /\ fc.thumb = "timeout" /\ fc.pc = "returned" /\ fc.ndownload = 1
    /\ fc.ret.bytes = "raw"

\* C10: when the file has a thumbnail link and the thumbnail response
\* passes both validations, get_file_content returns the thumbnail bytes
\* with MIME type image/jpeg, whatever the file's own MIME type, and
\* _download_raw is not called.
C10_ThumbnailReturned ==
    fc.thumb = "ok" =>
        /\ UsesThumbnail(fc.thumbnail_link)
        /\ fc.pc = "returned"
        /\ fc.ret = [bytes |-> "thumbnail", mime |-> ImageJpeg]
        /\ fc.ndownload = 0
C10_Witness ==
    /\ fc.thumb = "ok" /\ fc.pc = "returned"
    /\ IsHeic(fc.mime_type) /\ fc.ret.mime = ImageJpeg

\* C11 as stated: when the thumbnail response has a non-image Content-Type,
\* what get_file_content returns is the full-download bytes with the file's
\* own MIME type.
C11_FallbackReturnsOriginal ==
    (fc.thumb = "content_type" /\ fc.pc = "returned") =>
        fc.ret = [bytes |-> "raw", mime |-> fc.mime_type]
\* C11 as amended: when the thumbnail response has a non-image Content-Type,
\* get_file_content calls _download_raw once and, when the download
\* succeeds, returns what the full-download path gives: the downloaded bytes
\* with the file's own MIME type for a file that is not heic/heif or whose
\* transcode fails, and the JPEG re-encoding with image/jpeg for a heic/heif
\* file whose transcode succeeds. The thumbnail bytes are never returned.
C11_FallbackToFullDownload ==
    fc.thumb = "content_type" =>
        /\ fc.pc \in {"download", "convert", "returned", "raised"}
        /\ fc.ndownload = (IF fc.pc = "download" THEN 0 ELSE 1)
        /\ fc.pc = "raised" => fc.raised \in {"refresh", "download"}
        /\ fc.pc = "returned" =>
              \/ fc.ret = [bytes |-> "raw", mime |-> fc.mime_type]
              \/ /\ IsHeic(fc.mime_type)
                 /\ fc.ret = [bytes |-> "jpeg_of_raw", mime |-> ImageJpeg]
\* the thumbnail of a JPEG file came back as a non-image and the downloaded
\* bytes were returned as image/jpeg
C11_Witness ==
    /\ fc.thumb = "content_type" /\ fc.pc = "returned" /\ fc.ndownload = 1
    /\ fc.mime_type = ImageJpeg
    /\ fc.ret = [bytes |-> "raw", mime |-> ImageJpeg]

\* the MIME types of the model that name the legacy format (heic or heif in
\* them, in whatever case)
LegacyMimeTypes == { <<"i","m","a","g","e","/","h","e","i","c">>,
                     <<"i","m","a","g","e","/","H","E","I","F">>,
                     <<"i","m","a","g","e","/","h","e","i","f","-","s","e","q","u","e","n","c","e">> }
\* C12: on the full-download path (the download was made and succeeded), a
\* heic/heif file is transcoded, and returned as the JPEG re-encoding with
\* image/jpeg when the transcode succeeds and as the downloaded bytes with
\* its own MIME type when it fails; a file of another MIME type is not
\* transcoded and is returned as the downloaded bytes with its own MIME type.
C12_FullDownloadPath ==
    /\ fc.pc = "convert" => (fc.ndownload = 1 /\ fc.mime_type \in LegacyMimeTypes)
    /\ (fc.pc = "returned" /\ fc.ndownload = 1) =>
          IF fc.mime_type \in LegacyMimeTypes
          THEN /\ fc.convert \in {"ok", "error"}
               /\ fc.convert = "ok" =>
                     fc.ret = [bytes |-> "jpeg_of_raw", mime |-> ImageJpeg]
               /\ fc.convert = "error" =>
                     fc.ret = [bytes |-> "raw", mime |-> fc.mime_type]
          ELSE /\ fc.convert = "none"
               /\ fc.ret = [bytes |-> "raw", mime |-> fc.mime_type]
\* a heif file without thumbnail link was downloaded, the transcode failed
\* and the downloaded bytes came back as they were
C12_Witness ==
    /\ fc.pc = "returned" /\ fc.thumb = "none" /\ fc.ndownload = 1
    /\ Contains(fc.mime_type, <<"h","e","i","f">>)
    /\ fc.convert = "error"
    /\ fc.ret = [bytes |-> "raw", mime |-> fc.mime_type]

\* a size: decimal digits (a link that ends with the mark has the empty size)
IsSize(n) == \A i \in 1..Len(n) : n[i] \in {"0","1","2","3","4","5","6","7","8","9"}
\* link = base \o mark \o N for a size N: the bases there are (at most one)
BasesOfShape(link, mark) ==
    {SubSeq(link, 1, i) : i \in {k \in 0..Len(link) :
        /\ IsAt(link, mark, k + 1)
        /\ IsSize(SubSeq(link, k + Len(mark) + 1, Len(link)))}}
\* the URL a link should give: its trailing size replaced by 1600, or
\* =s1600 appended when it has no trailing size
TrailingSizeReplaced(link) ==
    IF BasesOfShape(link, <<"?","s","=">>) # {}
    THEN {b \o <<"?","s","=","1","6","0","0">> : b \in BasesOfShape(link, <<"?","s","=">>)}
    ELSE IF BasesOfShape(link, <<"=","s">>) # {}
    THEN {b \o <<"=","s","1","6","0","0">> : b \in BasesOfShape(link, <<"=","s">>)}
    ELSE {link \o <<"=","s","1","6","0","0">>}
\* C19: for every preview link, the URL asked for on the thumbnail path is
\* the link with its trailing size parameter replaced by 1600: base?s=N
\* gives base?s=1600, base=sN gives base=s1600, and a link of neither shape
\* gets =s1600 appended.
C19_TrailingSizeRewritten ==
    (fc.pc = "thumb" /\ UsesThumbnail(fc.thumbnail_link)) =>
        fc.url \in TrailingSizeReplaced(fc.thumbnail_link.val)

(* ============================ main.py (SpecApp) ======================== *)
\* _get_credentials has run
CredentialsResolved == app.pc \notin {"boot", "credentials"}
\* the request served last was one of `endpoint` that check_auth lets through
Authorized(endpoint) ==
    /\ app.req.endpoint = endpoint
    /\ app.req.token = Env(app.SECRET_KEY)
    /\ app.SECRET_KEY # ""

\* C14: the credentials come from one source, in this order: the JSON text
\* of the environment when there is one (a text that is not JSON gives a
\* ValueError, and the file is not looked for), else the credential file
\* when it exists, else a ValueError. When the resolution fails, the API
\* client is not built, no network call is made and there is no
\* drive_service.
C14_CredentialOrder ==
    /\ CredentialsResolved =>
          /\ app.json_creds \in {"malformed", "json"} =>
                /\ ~app.got.looked_for_file
                /\ app.got.creds \in {"env", "none"}
                /\ app.got.error = "none" => app.got.creds = "env"
          /\ app.json_creds = "malformed" =>
                /\ app.got.error = "ValueError"
                /\ app.got.message = "invalid_json"
          /\ (app.json_creds \in {"unset", "empty"} /\ app.file_exists) =>
                /\ app.got.creds \in {"file", "none"}
                /\ app.got.error = "none" => app.got.creds = "file"
                /\ app.got.message # "no_credentials"
          /\ (app.json_creds \in {"unset", "empty"} /\ ~app.file_exists) =>
                /\ app.got.error = "ValueError"
                /\ app.got.message = "no_credentials"
          /\ app.got.error # "none" =>
                (app.got.creds = "none" /\ ~app.built /\ ~app.network
                   /\ ~app.drive_service)
    /\ app.built => (CredentialsResolved /\ app.got.creds \in {"env", "file"})
    /\ app.network => app.built
\* the environment holds a text that is not JSON and the credential file
\* exists: the application serves without drive_service, nothing was built
C14_Witness ==
    /\ app.pc = "serving" /\ app.json_creds = "malformed" /\ app.file_exists
    /\ app.got.error = "ValueError" /\ ~app.got.looked_for_file
    /\ ~app.drive_service /\ ~app.built

\* C15: an authorized draw request with a known emotion, with drive_service
\* there and the folder id configured, is answered 200 with a caption of
\* that emotion; photo_url is /api/image/<id> of the record get_random_photo
\* returned, and empty when it returned None or raised; no remote link of
\* the record is in the response.
C15_DrawResponse ==
    (/\ Authorized("draw") /\ app.req.arg \in EmotionIds
     /\ app.drive_service
     /\ app.DRIVE_FOLDER_ID.some /\ app.DRIVE_FOLDER_ID.val # "") =>
        /\ app.resp.status = 200
        /\ app.resp.called = "get_random_photo"
        /\ app.resp.body.emotion_id = app.req.arg
        /\ app.resp.body.caption \in CAPTIONS[app.req.arg]
        /\ app.resp.result.kind \in {"photo", "null", "raised"}
        /\ app.resp.result.kind = "photo" =>
              app.resp.body.photo_url = <<"/api/image/", app.resp.result.photo.id>>
        /\ app.resp.result.kind \in {"null", "raised"} =>
              app.resp.body.photo_url = <<>>
        /\ Elems(app.resp.body.photo_url) \cap RemoteLinks = {}
        /\ app.resp.body.bytes = "none" /\ app.resp.body.media_type = <<>>
\* get_random_photo raised and the draw was answered with a caption only
C15_Witness ==
    /\ Authorized("draw") /\ app.resp.status = 200
    /\ app.resp.result.kind = "raised"
    /\ app.resp.body.photo_url = <<>>
    /\ app.resp.body.caption \in CAPTIONS["sad"]

\* C16 as stated: with no folder id configured, an authorized draw request
\* for a known emotion is answered 200 with a caption and an empty photo_url.
C16_CaptionOnlyWithoutFolder ==
    (/\ Authorized("draw") /\ app.req.arg \in EmotionIds
     /\ ~(app.DRIVE_FOLDER_ID.some /\ app.DRIVE_FOLDER_ID.val # "")) =>
        /\ app.resp.status = 200
        /\ app.resp.body.photo_url = <<>>
        /\ app.resp.body.caption \in CAPTIONS[app.req.arg]
\* C16 as amended: the same when drive_service is there, and then
\* get_random_photo is not called; when the construction of DriveService
\* failed the request is answered 503 whatever the folder id.
C16_CaptionOnlyWithService ==
    (/\ Authorized("draw") /\ app.req.arg \in EmotionIds
     /\ ~(app.DRIVE_FOLDER_ID.some /\ app.DRIVE_FOLDER_ID.val # "")) =>
        IF app.drive_service
        THEN /\ app.resp.status = 200
             /\ app.resp.called = "none"
             /\ app.resp.body.photo_url = <<>>
             /\ app.resp.body.caption \in CAPTIONS[app.req.arg]
             /\ app.resp.body.emotion_id = app.req.arg
        ELSE /\ app.resp.status = 503
             /\ app.resp.called = "none"
             /\ app.resp.body = NoBody
\* GOOGLE_DRIVE_FOLDER_ID is set to the empty string: caption only
C16_Witness ==
    /\ Authorized("draw") /\ app.DRIVE_FOLDER_ID = Env("")
    /\ app.drive_service
    /\ app.resp.status = 200 /\ app.resp.body.photo_url = <<>>
    /\ app.resp.body.caption \in CAPTIONS["happy"]

\* C17: an authorized image request, with drive_service there, is answered
\* with the bytes and the MIME type get_file_content returned, and with 404
\* whatever get_file_content raised.
C17_ProxyImage ==
    (Authorized("image") /\ app.drive_service) =>
        /\ app.resp.called = "get_file_content"
        /\ app.resp.result.kind \in {"returned", "raised"}
        /\ app.resp.result.kind = "returned" =>
              /\ app.resp.status = 200
              /\ app.resp.body.bytes = app.resp.result.bytes
              /\ app.resp.body.media_type = app.resp.result.mime
        /\ app.resp.result.kind = "raised" =>
              /\ app.resp.status = 404
              /\ app.resp.body = NoBody
\* the full download failed inside get_file_content: 404
C17_Witness ==
    /\ Authorized("image") /\ app.resp.status = 404
    /\ app.resp.result.kind = "raised" /\ app.resp.result.raised = "download"

\* C18: a request to the emotions, draw or image endpoint whose auth_token
\* cookie is not the secret key is answered 401 and calls nothing of
\* DriveService; login sets the cookie, to the secret key, only when the
\* password is the application password, and answers 401 otherwise; so the
\* browser never holds another cookie than the secret key.
C18_AuthRequired ==
    /\ (/\ app.req.endpoint \in {"emotions", "draw", "image"}
        /\ app.req.token # Env(app.SECRET_KEY)) =>
          /\ app.resp.status = 401
          /\ app.resp.called = "none"
          /\ app.resp.result = NoResult
          /\ app.resp.body = NoBody
    /\ app.req.endpoint = "login" =>
          IF app.req.arg = app.APP_PASSWORD
          THEN app.resp.status = 200 /\ app.resp.set_cookie = Env(app.SECRET_KEY)
          ELSE app.resp.status = 401 /\ app.resp.set_cookie = NoEnv
    /\ app.req.endpoint # "login" => app.resp.set_cookie = NoEnv
    /\ app.jar \in {NoEnv, Env(app.SECRET_KEY)}
\* after a login, a draw request that came with another cookie than the
\* one issued was answered 401
C18_Witness ==
    /\ app.jar = Env(app.SECRET_KEY) /\ app.SECRET_KEY # ""
    /\ app.req.endpoint = "draw" /\ app.req.arg \in EmotionIds
    /\ Truthy(app.req.token) /\ app.req.token # app.jar
    /\ app.drive_service
    /\ app.resp.status = 401

====
